---- MODULE Spec2Model ----
(***************************************************************************)
(* A model of ecc, a compiler for a tiny subset of C: the Lexer            *)
(* (src/unnamed/part_001, include/ecc/lexer.hpp), the recursive-descent    *)
(* Parser (src/src/parser.cpp), the Compiler that writes the assembly     *)
(* (src/unnamed/part_001, include/ecc/compiler.hpp) and the driver `main`  *)
(* (src/unnamed/part_003) that lexes a source to the end and parses the    *)
(* collected tokens.                                                       *)
(*                                                                         *)
(* Characters are their char values: the ASCII codes, and a negative      *)
(* value for a byte above 127 where char is signed.  A source is a         *)
(* sequence of them and a string_view lexeme is the sequence it views.     *)
(* Indices of the code (m_current) are 0-based, TLA+ sequences are         *)
(* 1-based.                                                                *)
(***************************************************************************)
EXTENDS Integers, Sequences, FiniteSets, TLC

VARIABLES
    lexer,    \* the Lexer object: m_source, m_current, m_line, m_column
    tokens,   \* main's std::vector<Token> of collected tokens
    parser,   \* the Parser object: m_tokens, m_current
    pc,       \* position of the driver: "lex", "parse", "done", "terminate", or an API mode
    ret,      \* what the last call returned or threw
    compiler, \* the Compiler object: m_assembly, the text written so far
    retrieved,\* history: get_code has been called on the Compiler
    calls,    \* history: the number of calls made on the Compiler
    isspace_negative
              \* what std::isspace answers for a negative char in this build

vars ==
    <<lexer, tokens, parser, pc, ret, compiler, retrieved, calls,
      isspace_negative>>

compilerVars == <<compiler, retrieved, calls>>

---------------------------------------------------------------------------
(* Bounds of the model. *)

\* Longest source drawn from SourceChars.
MaxSrcLen == 3

\* Longest run of tokens put after a function's tokens, or given alone.
MaxTail == 2

\* Longest integer lexeme drawn from DigitChars.
MaxDigits == 10

\* Longest source given to the caller that never stops calling next_token.
MaxLoopLen == 2

\* Longest function body given to the Compiler.
MaxBody == 2

\* Most calls made on one Compiler.
MaxCalls == 2

---------------------------------------------------------------------------
(* Character literals of the lexer. *)

Newline == 10
BraceLeftChar == 123
BraceRightChar == 125
ParenLeftChar == 40
ParenRightChar == 41
SemicolonChar == 59

\* "int", "return", "void" as compared by check_keyword.
IntLexeme == <<105, 110, 116>>
ReturnLexeme == <<114, 101, 116, 117, 114, 110>>
VoidLexeme == <<118, 111, 105, 100>>

\* "unrecognized character"
UnrecognizedCharacter ==
    <<117, 110, 114, 101, 99, 111, 103, 110, 105, 122, 101, 100, 32,
      99, 104, 97, 114, 97, 99, 116, 101, 114>>

TokenType ==
    { "KeywordInt", "KeywordReturn", "KeywordVoid", "LiteralIdentifier",
      "LiteralInteger", "SpecialError", "SymbolBraceLeft", "SymbolBraceRight",
      "SymbolParenLeft", "SymbolParenRight", "SymbolSemicolon" }

Token(type, lexeme, line, column) ==
    [type |-> type, lexeme |-> lexeme, line |-> line, column |-> column]

---------------------------------------------------------------------------
(* Results of a call: std::optional, a returned value, a thrown exception. *)

None == [has |-> FALSE]
Some(v) == [has |-> TRUE, value |-> v]

Void == [kind |-> "void"]
Nullopt == [kind |-> "nullopt"]
ReturnToken(t) == [kind |-> "token", token |-> t]
ReturnValue(v) == [kind |-> "value", value |-> v]
Throw(exception, what) == [kind |-> "throw", exception |-> exception, what |-> what]

---------------------------------------------------------------------------
(* The Lexer. *)

check_keyword(lexeme) ==
    IF lexeme = IntLexeme THEN "KeywordInt"
    ELSE IF lexeme = ReturnLexeme THEN "KeywordReturn"
    ELSE IF lexeme = VoidLexeme THEN "KeywordVoid"
    ELSE "LiteralIdentifier"

\* Lexer::Lexer(source)
Lexer(source) ==
    [m_source |-> source, m_current |-> 0, m_line |-> 1, m_column |-> 1]

is_ident_start(c) ==
    (65 <= c /\ c <= 90) \/ (97 <= c /\ c <= 122) \/ c = 95

is_digit(c) == 48 <= c /\ c <= 57

is_ident(c) == is_ident_start(c) \/ is_digit(c)

\* std::isspace in the "C" locale: space, \t, \n, \v, \f, \r.  The char is
\* passed as it is, and for a negative value, neither EOF nor an unsigned
\* char, the behaviour is undefined: a build answers from its table one
\* way or the other.
isspace(c) ==
    IF c < 0 THEN isspace_negative ELSE c = 32 \/ (9 <= c /\ c <= 13)

\* std::string_view::substr(pos, n) for pos <= size(): clipped at the end.
substr(s, pos, n) ==
    SubSeq(s, pos + 1, IF pos + n < Len(s) THEN pos + n ELSE Len(s))

get_current(L) ==
    IF L.m_current < Len(L.m_source)
    THEN Some(L.m_source[L.m_current + 1])
    ELSE None

\* advance with the column reset of a newline left out.
advance_without_column_reset(L) ==
    LET current == get_current(L) IN
    IF ~current.has THEN L
    ELSE LET L1 == [L EXCEPT !.m_current = @ + 1, !.m_column = @ + 1] IN
         IF current.value = Newline THEN [L1 EXCEPT !.m_line = @ + 1] ELSE L1

advance(L) ==
    LET current == get_current(L) IN
    IF ~current.has THEN L
    ELSE LET L1 == [L EXCEPT !.m_current = @ + 1, !.m_column = @ + 1] IN
         IF current.value = Newline
         THEN [L1 EXCEPT !.m_line = @ + 1, !.m_column = 1]
         ELSE L1

RECURSIVE skip_whitespace(_)
skip_whitespace(L) ==
    LET current == get_current(L) IN
    IF ~current.has \/ ~isspace(current.value) THEN L
    ELSE skip_whitespace(advance(L))

\* The token is built with TokenType::SymbolBraceLeft whatever `type` is.
make_token_and_advance(L, type) ==
    [lexer |-> advance(L),
     ret |-> ReturnToken(Token("SymbolBraceLeft", substr(L.m_source, L.m_current, 1),
                               L.m_line, L.m_column))]

\* The loop of make_identifier: `length` counts the characters after the first.
RECURSIVE make_identifier_loop(_, _, _)
make_identifier_loop(L, start, length) ==
    LET current == get_current(L) IN
    IF ~current.has \/ ~is_ident(current.value)
    THEN LET lexeme == substr(L.m_source, start, length) IN
         [lexer |-> L,
          ret |-> ReturnToken(Token(check_keyword(lexeme), lexeme, L.m_line, L.m_column))]
    ELSE make_identifier_loop(advance(L), start, length + 1)

make_identifier(L) ==
    LET current == get_current(L) IN
    IF ~current.has \/ ~is_ident_start(current.value)
    THEN [lexer |-> L,
          ret |-> Throw("LexError", <<"expected the start of an identifier">>)]
    ELSE make_identifier_loop(advance(L), L.m_current, 0)

RECURSIVE make_number_loop(_, _, _)
make_number_loop(L, start, length) ==
    LET current == get_current(L) IN
    IF ~current.has \/ ~is_digit(current.value)
    THEN [lexer |-> L,
          ret |-> ReturnToken(Token("LiteralInteger", substr(L.m_source, start, length),
                                    L.m_line, L.m_column))]
    ELSE make_number_loop(advance(L), start, length + 1)

make_number(L) ==
    LET current == get_current(L) IN
    IF ~current.has \/ ~is_digit(current.value)
    THEN [lexer |-> L, ret |-> Throw("LexError", <<"expected a digit">>)]
    ELSE make_number_loop(advance(L), L.m_current, 0)

\* The lexeme of the error token views a temporary std::string that is
\* destroyed when make_error's initializer ends: what a reader of the lexeme
\* sees is `dangling`, any of DanglingLexemes.
DanglingLexemes == { UnrecognizedCharacter, <<0>> }

\* make_error as a lexer that reports the character by throwing.
make_error_throwing(L, dangling) ==
    [lexer |-> advance(L), ret |-> Throw("LexError", <<"unrecognized character">>)]

\* make_error that reports the character and leaves it current.
make_error_without_advance(L, dangling) ==
    [lexer |-> L,
     ret |-> ReturnToken(Token("SpecialError", dangling, L.m_line, L.m_column))]

make_error(L, dangling) ==
    [lexer |-> advance(L),
     ret |-> ReturnToken(Token("SpecialError", dangling, L.m_line, L.m_column))]

\* next_token with the identifier branch taken on any identifier character,
\* a digit included.
next_token_is_ident(L, dangling) ==
    LET S == skip_whitespace(L)
        current == get_current(S)
    IN  IF ~current.has THEN [lexer |-> S, ret |-> Nullopt]
        ELSE IF current.value = BraceLeftChar
             THEN make_token_and_advance(S, "SymbolBraceLeft")
        ELSE IF current.value = BraceRightChar
             THEN make_token_and_advance(S, "SymbolBraceRight")
        ELSE IF current.value = ParenLeftChar
             THEN make_token_and_advance(S, "SymbolParenLeft")
        ELSE IF current.value = ParenRightChar
             THEN make_token_and_advance(S, "SymbolParenRight")
        ELSE IF current.value = SemicolonChar
             THEN make_token_and_advance(S, "SymbolSemicolon")
        ELSE IF is_ident(current.value) THEN make_identifier(S)
        ELSE IF is_digit(current.value) THEN make_number(S)
        ELSE make_error(S, dangling)

next_token(L, dangling) ==
    LET S == skip_whitespace(L)
        current == get_current(S)
    IN  IF ~current.has THEN [lexer |-> S, ret |-> Nullopt]
        ELSE IF current.value = BraceLeftChar
             THEN make_token_and_advance(S, "SymbolBraceLeft")
        ELSE IF current.value = BraceRightChar
             THEN make_token_and_advance(S, "SymbolBraceRight")
        ELSE IF current.value = ParenLeftChar
             THEN make_token_and_advance(S, "SymbolParenLeft")
        ELSE IF current.value = ParenRightChar
             THEN make_token_and_advance(S, "SymbolParenRight")
        ELSE IF current.value = SemicolonChar
             THEN make_token_and_advance(S, "SymbolSemicolon")
        ELSE IF is_ident_start(current.value) THEN make_identifier(S)
        ELSE IF is_digit(current.value) THEN make_number(S)
        ELSE make_error(S, dangling)

---------------------------------------------------------------------------
(* The abstract syntax tree built by the parser. *)

Identifier(name) == [node |-> "Identifier", name |-> name]
IntegerLiteral(value) == [node |-> "IntegerLiteral", value |-> value]
ReturnStatement(return_value) ==
    [node |-> "ReturnStatement", return_value |-> return_value]
Function(name, body) == [node |-> "Function", name |-> name, body |-> body]
Program(function) == [node |-> "Program", function |-> function]

---------------------------------------------------------------------------
(* std::stoi on a lexeme that starts with a digit or is empty (the lexemes *)
(* the lexer gives a LiteralInteger token): the value of the leading       *)
(* digits, std::invalid_argument when there is none, std::out_of_range     *)
(* when the value does not fit an int.                                     *)

INT_MAX == 2147483647

RECURSIVE stoi_loop(_, _, _)
stoi_loop(str, i, acc) ==
    IF i > Len(str) \/ ~is_digit(str[i]) THEN ReturnValue(acc)
    ELSE LET d == str[i] - 48 IN
         IF acc > (INT_MAX - d) \div 10
         THEN Throw("std::out_of_range", <<"stoi">>)
         ELSE stoi_loop(str, i + 1, acc * 10 + d)

\* stoi as a conversion that saturates at INT_MAX, as strtol does at
\* LONG_MAX, with the range check left out.
stoi_saturating(str) ==
    IF str = <<>> \/ ~is_digit(str[1])
    THEN Throw("std::invalid_argument", <<"stoi">>)
    ELSE LET value == stoi_loop(str, 1, 0) IN
         IF value.kind = "throw" THEN ReturnValue(INT_MAX) ELSE value

stoi(str) ==
    IF str = <<>> \/ ~is_digit(str[1])
    THEN Throw("std::invalid_argument", <<"stoi">>)
    ELSE stoi_loop(str, 1, 0)

---------------------------------------------------------------------------
(* The Parser.  Every operation yields the parser after the call and what  *)
(* the call returned or threw; a throw inside a callee propagates with the *)
(* cursor where the callee left it.                                        *)

\* Parser::Parser(tokens)
Parser(toks) == [m_tokens |-> toks, m_current |-> 0]

has_more_tokens(P) == P.m_current < Len(P.m_tokens)

parser_get_current(P) ==
    IF has_more_tokens(P) THEN Some(P.m_tokens[P.m_current + 1]) ELSE None

\* consume_token with the comparison of the types left out.
consume_token_any_type(P, type) ==
    LET current == parser_get_current(P) IN
    IF ~current.has
    THEN [parser |-> P,
          ret |-> Throw("std::runtime_error", <<"expected token of type", type>>)]
    ELSE [parser |-> [P EXCEPT !.m_current = @ + 1],
          ret |-> ReturnValue(current.value)]

consume_token(P, type) ==
    LET current == parser_get_current(P) IN
    IF ~current.has \/ current.value.type # type
    THEN [parser |-> P,
          ret |-> Throw("std::runtime_error", <<"expected token of type", type>>)]
    ELSE [parser |-> [P EXCEPT !.m_current = @ + 1],
          ret |-> ReturnValue(current.value)]

parse_identifier(P) ==
    LET ident == consume_token(P, "LiteralIdentifier") IN
    IF ident.ret.kind = "throw" THEN ident
    ELSE [parser |-> ident.parser,
          ret |-> ReturnValue(Identifier(ident.ret.value.lexeme))]

parse_integer_literal(P) ==
    LET current == parser_get_current(P) IN
    IF ~current.has \/ current.value.type # "LiteralInteger"
    THEN [parser |-> P,
          ret |-> Throw("std::runtime_error", <<"expected integer literal">>)]
    ELSE LET P1 == [P EXCEPT !.m_current = @ + 1]
             value == stoi(current.value.lexeme)
         IN  IF value.kind = "throw" THEN [parser |-> P1, ret |-> value]
             ELSE [parser |-> P1, ret |-> ReturnValue(IntegerLiteral(value.value))]

parse_expression(P) ==
    LET current == parser_get_current(P) IN
    IF ~current.has
    THEN [parser |-> P, ret |-> Throw("std::runtime_error", <<"expected expression">>)]
    ELSE IF current.value.type = "LiteralInteger" THEN parse_integer_literal(P)
    ELSE [parser |-> P, ret |-> Throw("std::runtime_error", <<"expected expression">>)]

parse_return_statement(P) ==
    LET r1 == consume_token(P, "KeywordReturn") IN
    IF r1.ret.kind = "throw" THEN r1 ELSE
    LET return_value == parse_expression(r1.parser) IN
    IF return_value.ret.kind = "throw" THEN return_value ELSE
    LET r2 == consume_token(return_value.parser, "SymbolSemicolon") IN
    IF r2.ret.kind = "throw" THEN r2 ELSE
    [parser |-> r2.parser,
     ret |-> ReturnValue(ReturnStatement(return_value.ret.value))]

parse_statement(P) == parse_return_statement(P)

parse_function(P) ==
    LET r1 == consume_token(P, "KeywordInt") IN
    IF r1.ret.kind = "throw" THEN r1 ELSE
    LET name == parse_identifier(r1.parser) IN
    IF name.ret.kind = "throw" THEN name ELSE
    LET r2 == consume_token(name.parser, "SymbolParenLeft") IN
    IF r2.ret.kind = "throw" THEN r2 ELSE
    LET r3 == consume_token(r2.parser, "KeywordVoid") IN
    IF r3.ret.kind = "throw" THEN r3 ELSE
    LET r4 == consume_token(r3.parser, "SymbolParenRight") IN
    IF r4.ret.kind = "throw" THEN r4 ELSE
    LET r5 == consume_token(r4.parser, "SymbolBraceLeft") IN
    IF r5.ret.kind = "throw" THEN r5 ELSE
    LET statement == parse_statement(r5.parser) IN
    IF statement.ret.kind = "throw" THEN statement ELSE
    LET r6 == consume_token(statement.parser, "SymbolBraceRight") IN
    IF r6.ret.kind = "throw" THEN r6 ELSE
    [parser |-> r6.parser,
     ret |-> ReturnValue(Function(name.ret.value.name, <<statement.ret.value>>))]

\* parse_program with the test for remaining tokens left out.
parse_program_without_end_test(P) ==
    LET function == parse_function(P) IN
    IF function.ret.kind = "throw" THEN function
    ELSE [parser |-> function.parser,
          ret |-> ReturnValue(Program(function.ret.value))]

parse_program(P) ==
    LET function == parse_function(P) IN
    IF function.ret.kind = "throw" THEN function
    ELSE IF has_more_tokens(function.parser)
    THEN [parser |-> function.parser,
          ret |-> Throw("std::runtime_error", <<"expected end of file">>)]
    ELSE [parser |-> function.parser,
          ret |-> ReturnValue(Program(function.ret.value))]

---------------------------------------------------------------------------
(* The Compiler.  m_assembly, a std::ostringstream, is the sequence of the *)
(* characters written to it.  Every operation yields the compiler after    *)
(* the call and what the call returned or threw; what was written before a *)
(* throw stays written.                                                    *)

\* "\t.globl ", "\n", ":\n", "\tmovl\t", "$", ", %eax\n", "\tret\n"
GloblText == <<9, 46, 103, 108, 111, 98, 108, 32>>
NewlineText == <<10>>
LabelEndText == <<58, 10>>
MovlText == <<9, 109, 111, 118, 108, 9>>
DollarText == <<36>>
EaxText == <<44, 32, 37, 101, 97, 120, 10>>
RetText == <<9, 114, 101, 116, 10>>

\* The Compiler as default-constructed: nothing written.
Compiler == [m_assembly |-> <<>>]

\* m_assembly << text
write(C, text) == [C EXCEPT !.m_assembly = @ \o text]

\* The decimal digits operator<< writes for a non-negative int.
RECURSIVE int_digits(_)
int_digits(n) ==
    IF n < 10 THEN <<48 + n>> ELSE int_digits(n \div 10) \o <<48 + (n % 10)>>

\* std::ostream::operator<<(int): decimal, '-' before a negative value.
int_text(value) ==
    IF value < 0 THEN <<45>> \o int_digits(0 - value) ELSE int_digits(value)

\* Compiler::operator()(const Identifier &)
visit_Identifier(C, identifier) ==
    [compiler |-> C, ret |-> Throw("std::runtime_error", <<"todo">>)]

\* Compiler::operator()(const IntegerLiteral &)
visit_IntegerLiteral(C, integer_literal) ==
    [compiler |-> write(write(C, DollarText), int_text(integer_literal.value)),
     ret |-> Void]

\* std::visit(*this, expression) on the Expression variant
visit_Expression(C, expression) ==
    IF expression.node = "Identifier" THEN visit_Identifier(C, expression)
    ELSE visit_IntegerLiteral(C, expression)

\* The ReturnStatement visitor with the return instruction left out.
visit_ReturnStatement_without_ret(C, return_statement) ==
    LET C1 == write(C, MovlText)
        value == visit_Expression(C1, return_statement.return_value)
    IN  IF value.ret.kind = "throw" THEN value
        ELSE [compiler |-> write(value.compiler, EaxText), ret |-> Void]

\* Compiler::operator()(const ReturnStatement &)
visit_ReturnStatement(C, return_statement) ==
    LET C1 == write(C, MovlText)
        value == visit_Expression(C1, return_statement.return_value)
    IN  IF value.ret.kind = "throw" THEN value
        ELSE [compiler |-> write(write(value.compiler, EaxText), RetText),
              ret |-> Void]

\* The loop of compile_function over the statements from the i-th on.
RECURSIVE compile_body(_, _, _)
compile_body(C, body, i) ==
    IF i > Len(body) THEN [compiler |-> C, ret |-> Void]
    ELSE LET statement == visit_ReturnStatement(C, body[i]) IN
         IF statement.ret.kind = "throw" THEN statement
         ELSE compile_body(statement.compiler, body, i + 1)

compile_function(C, function) ==
    LET C1 == write(write(write(C, GloblText), function.name.name), NewlineText)
        C2 == write(write(C1, function.name.name), LabelEndText)
    IN  compile_body(C2, function.body, 1)

compile_program(C, program) == compile_function(C, program.function)

get_code(C) == C.m_assembly

---------------------------------------------------------------------------
(* Inputs. *)

\* ' ', '\n', '\r', '{', ';', 'a', '2', '#'
\* The byte 0xC3, the first of a two-byte UTF-8 letter, as a signed char.
HighByte == 195 - 256

\* space, \n, \r, {, ;, a, 2, #, and the byte 0xC3
SourceChars == { 32, 10, 13, 123, 59, 97, 50, 35, HighByte }

BoundedSources == UNION { [1..n -> SourceChars] : n \in 0..MaxSrcLen }

\* int main(void){return 2;}
MainSource ==
    <<105, 110, 116, 32, 109, 97, 105, 110, 40, 118, 111, 105, 100, 41, 123,
      114, 101, 116, 117, 114, 110, 32, 50, 59, 125>>

\* int main(void){return 2;
MissingBraceSource == SubSeq(MainSource, 1, Len(MainSource) - 1)

MainLexeme == <<109, 97, 105, 110>>

FixedSources ==
    { MainSource, MissingBraceSource,
      IntLexeme, ReturnLexeme, VoidLexeme, MainLexeme,
      IntLexeme \o <<97>>,                  \* inta
      ReturnLexeme \o <<95, 32>>,           \* return_ and a space
      VoidLexeme \o <<48, 9, 125>>,         \* void0, a tab, }
      <<95, 120, 49, 32, 9, 10, 32, 52, 50, 40, 41>>,  \* _x1 then " \t\n " then 42()
      <<10, 10, 125, 35, 40, 36, 55, 55, 55>> }        \* two newlines then }#($777

Sources == BoundedSources \cup FixedSources

\* The answers of std::isspace for a negative char that runs on source can
\* tell apart: either one when the source has such a char.
UndefinedIsspace(source) ==
    IF \E i \in 1..Len(source) : source[i] < 0 THEN BOOLEAN ELSE { FALSE }

Tok(type, lexeme) == Token(type, lexeme, 1, 1)

\* The tokens of  int main ( void ) { return 2 ; }
FunctionTokens ==
    << Tok("KeywordInt", IntLexeme), Tok("LiteralIdentifier", MainLexeme),
       Tok("SymbolParenLeft", <<ParenLeftChar>>), Tok("KeywordVoid", VoidLexeme),
       Tok("SymbolParenRight", <<ParenRightChar>>),
       Tok("SymbolBraceLeft", <<BraceLeftChar>>),
       Tok("KeywordReturn", ReturnLexeme), Tok("LiteralInteger", <<50>>),
       Tok("SymbolSemicolon", <<SemicolonChar>>),
       Tok("SymbolBraceRight", <<BraceRightChar>>) >>

SampleTokens ==
    { FunctionTokens[i] : i \in 1..Len(FunctionTokens) }
    \cup { Tok("LiteralInteger", <<>>), Tok("SpecialError", UnrecognizedCharacter) }

\* The tokens put after the first token of a tail.
FurtherTokens ==
    { Tok("KeywordInt", IntLexeme), Tok("SpecialError", UnrecognizedCharacter),
      Tok("SymbolBraceRight", <<BraceRightChar>>) }

\* Up to MaxTail tokens: any sample token, then further tokens.
Tails ==
    { <<>> } \cup
    { <<t>> \o rest : t \in SampleTokens,
                      rest \in UNION { [1..n -> FurtherTokens] : n \in 0..(MaxTail - 1) } }

\* '0', '2'
DigitChars == { 48, 50 }

\* 2147483647, 2147483648, 4294967298, 02147483647, 99999999999999999999
BoundaryLexemes ==
    { <<50, 49, 52, 55, 52, 56, 51, 54, 52, 55>>,
      <<50, 49, 52, 55, 52, 56, 51, 54, 52, 56>>,
      <<52, 50, 57, 52, 57, 54, 55, 50, 57, 56>>,
      <<48, 50, 49, 52, 55, 52, 56, 51, 54, 52, 55>>,
      [i \in 1..20 |-> 57] }

DigitLexemes ==
    UNION { [1..n -> DigitChars] : n \in 0..MaxDigits } \cup BoundaryLexemes

\* Token sequences given to Parser::Parser: arbitrary short ones, a whole
\* function followed by one, a proper prefix of a function with or without
\* one further token, or one integer literal.
ParserInputs ==
    Tails
    \cup { FunctionTokens \o tail : tail \in Tails }
    \cup { SubSeq(FunctionTokens, 1, k) : k \in 1..Len(FunctionTokens) }
    \cup { Append(SubSeq(FunctionTokens, 1, k), t) :
              k \in 1..Len(FunctionTokens), t \in SampleTokens }
    \cup { <<Tok("LiteralInteger", d)>> : d \in DigitLexemes }

\* Function names given to the Compiler: "main" and "f".
FunctionNames == { MainLexeme, <<102>> }

\* Values of the integer literals of the programs given to the Compiler.
LiteralValues == { 2, 0 - 7 }

\* Values given to the IntegerLiteral visitor alone.
VisitedValues == LiteralValues \cup { 0, 10, INT_MAX }

\* The name of the identifier expressions: "a".
VariableName == <<97>>

\* Return statements of an integer literal or of an identifier.
Statements ==
    { ReturnStatement(IntegerLiteral(v)) : v \in LiteralValues }
    \cup { ReturnStatement(Identifier(VariableName)) }

\* Function bodies of at most MaxBody statements.
Bodies ==
    UNION { [1..n -> Statements] : n \in 0..MaxBody }

\* Functions as include/ecc/ast.hpp declares them: the name is an Identifier.
Functions ==
    { Function(Identifier(name), body) : name \in FunctionNames, body \in Bodies }

Programs == { Program(function) : function \in Functions }

---------------------------------------------------------------------------
(* main: lex the source to the end, then parse the collected tokens. *)

Init ==
    \E source \in Sources :
        /\ lexer = Lexer(source)
        /\ tokens = <<>>
        /\ parser = Parser(<<>>)      \* not constructed before lexing ends
        /\ pc = "lex"
        /\ ret = Void
        /\ compiler = Compiler
        /\ retrieved = FALSE
        /\ calls = 0
        /\ isspace_negative \in UndefinedIsspace(source)

\* One iteration of main's loop; leaving the loop constructs the Parser.
MainLex ==
    /\ pc = "lex"
    /\ \E dangling \in DanglingLexemes :
        LET r == next_token(lexer, dangling) IN
        /\ lexer' = r.lexer
        /\ ret' = r.ret
        /\ IF r.ret.kind = "token"
           THEN /\ tokens' = Append(tokens, r.ret.token)
                /\ pc' = "lex"
                /\ UNCHANGED parser
           ELSE IF r.ret.kind = "nullopt"
           THEN /\ parser' = Parser(tokens)
                /\ pc' = "parse"
                /\ UNCHANGED tokens
           ELSE /\ pc' = "terminate"
                /\ UNCHANGED <<tokens, parser>>
    /\ UNCHANGED <<compilerVars, isspace_negative>>

\* parser.parse_program(); an exception leaves main uncaught.
MainParse ==
    /\ pc = "parse"
    /\ LET r == parse_program(parser) IN
        /\ parser' = r.parser
        /\ ret' = r.ret
        /\ pc' = IF r.ret.kind = "throw" THEN "terminate" ELSE "done"
    /\ UNCHANGED <<lexer, tokens>>
    /\ UNCHANGED <<compilerVars, isspace_negative>>

Next == MainLex \/ MainParse

Spec == Init /\ [][Next]_vars

---------------------------------------------------------------------------
(* The Lexer's public methods, called in any order on one Lexer. *)

InitLexer ==
    \E source \in Sources :
        /\ lexer = Lexer(source)
        /\ tokens = <<>>
        /\ parser = Parser(<<>>)
        /\ pc = "lexer"
        /\ ret = Void
        /\ compiler = Compiler
        /\ retrieved = FALSE
        /\ calls = 0
        /\ isspace_negative \in UndefinedIsspace(source)

LexerCall(r) ==
    /\ pc = "lexer"
    /\ lexer' = r.lexer
    /\ ret' = r.ret
    /\ UNCHANGED <<tokens, parser, pc>>
    /\ UNCHANGED <<compilerVars, isspace_negative>>

Advance == LexerCall([lexer |-> advance(lexer), ret |-> Void])

SkipWhitespace == LexerCall([lexer |-> skip_whitespace(lexer), ret |-> Void])

MakeTokenAndAdvance == \E type \in TokenType : LexerCall(make_token_and_advance(lexer, type))

MakeIdentifier == LexerCall(make_identifier(lexer))

MakeNumber == LexerCall(make_number(lexer))

MakeError == \E dangling \in DanglingLexemes : LexerCall(make_error(lexer, dangling))

NextToken == \E dangling \in DanglingLexemes : LexerCall(next_token(lexer, dangling))

NextLexer ==
    \/ Advance
    \/ SkipWhitespace
    \/ MakeTokenAndAdvance
    \/ MakeIdentifier
    \/ MakeNumber
    \/ MakeError
    \/ NextToken

SpecLexer == InitLexer /\ [][NextLexer]_vars

---------------------------------------------------------------------------
(* A caller that calls nothing but next_token, as the loop of main does,   *)
(* and goes on calling it after the end of the source.  The fair           *)
(* specification is the caller that never stops calling, on the sources of *)
(* at most MaxLoopLen characters.                                          *)

SpecNextToken == InitLexer /\ [][NextToken]_vars

InitLoop ==
    \E source \in UNION { [1..n -> SourceChars] : n \in 0..MaxLoopLen } :
        /\ lexer = Lexer(source)
        /\ tokens = <<>>
        /\ parser = Parser(<<>>)
        /\ pc = "lexer"
        /\ ret = Void
        /\ compiler = Compiler
        /\ retrieved = FALSE
        /\ calls = 0
        /\ isspace_negative \in UndefinedIsspace(source)

FairSpecNextToken == InitLoop /\ [][NextToken]_vars /\ WF_vars(NextToken)

---------------------------------------------------------------------------
(* The Parser's public methods, called in any order on one Parser. *)

InitParser ==
    \E toks \in ParserInputs :
        /\ lexer = Lexer(<<>>)
        /\ tokens = toks
        /\ parser = Parser(toks)
        /\ pc = "parser"
        /\ ret = Void
        /\ compiler = Compiler
        /\ retrieved = FALSE
        /\ calls = 0
        /\ isspace_negative = FALSE

ParserCall(r) ==
    /\ pc = "parser"
    /\ parser' = r.parser
    /\ ret' = r.ret
    /\ UNCHANGED <<lexer, tokens, pc>>
    /\ UNCHANGED <<compilerVars, isspace_negative>>

ConsumeToken == \E type \in TokenType : ParserCall(consume_token(parser, type))

ParseProgram == ParserCall(parse_program(parser))

ParseFunction == ParserCall(parse_function(parser))

ParseStatement == ParserCall(parse_statement(parser))

ParseReturnStatement == ParserCall(parse_return_statement(parser))

ParseExpression == ParserCall(parse_expression(parser))

ParseIdentifier == ParserCall(parse_identifier(parser))

ParseIntegerLiteral == ParserCall(parse_integer_literal(parser))

NextParser ==
    \/ ConsumeToken
    \/ ParseProgram
    \/ ParseFunction
    \/ ParseStatement
    \/ ParseReturnStatement
    \/ ParseExpression
    \/ ParseIdentifier
    \/ ParseIntegerLiteral

SpecParser == InitParser /\ [][NextParser]_vars

---------------------------------------------------------------------------
(* The Compiler's public methods, called in any order on one Compiler. *)

InitCompiler ==
    /\ lexer = Lexer(<<>>)
    /\ tokens = <<>>
    /\ parser = Parser(<<>>)
    /\ pc = "compiler"
    /\ ret = Void
    /\ compiler = Compiler
    /\ retrieved = FALSE
    /\ calls = 0
    /\ isspace_negative = FALSE

CompilerCall(r) ==
    /\ pc = "compiler"
    /\ calls < MaxCalls
    /\ calls' = calls + 1
    /\ compiler' = r.compiler
    /\ ret' = r.ret
    /\ UNCHANGED <<lexer, tokens, parser, pc, retrieved, isspace_negative>>

CompileProgram ==
    \E program \in Programs : CompilerCall(compile_program(compiler, program))

CompileFunction ==
    \E function \in Functions : CompilerCall(compile_function(compiler, function))

VisitIdentifier ==
    CompilerCall(visit_Identifier(compiler, Identifier(VariableName)))

VisitIntegerLiteral ==
    \E value \in VisitedValues :
        CompilerCall(visit_IntegerLiteral(compiler, IntegerLiteral(value)))

VisitReturnStatement ==
    \E statement \in Statements :
        CompilerCall(visit_ReturnStatement(compiler, statement))

GetCode ==
    /\ pc = "compiler"
    /\ calls < MaxCalls
    /\ calls' = calls + 1
    /\ ret' = ReturnValue(get_code(compiler))
    /\ retrieved' = TRUE
    /\ UNCHANGED <<lexer, tokens, parser, pc, compiler, isspace_negative>>

NextCompiler ==
    \/ CompileProgram
    \/ CompileFunction
    \/ VisitIdentifier
    \/ VisitIntegerLiteral
    \/ VisitReturnStatement
    \/ GetCode

SpecCompiler == InitCompiler /\ [][NextCompiler]_vars

---------------------------------------------------------------------------
(* Vocabulary of the properties, stated without the lexer's operators. *)

\* The number of characters from 0-based position pos on that all satisfy P.
RunLength(s, pos, P(_)) ==
    CHOOSE n \in 0..(Len(s) - pos) :
        /\ \A i \in 1..n : P(s[pos + i])
        /\ pos + n < Len(s) => ~P(s[pos + n + 1])

IsLetterOrUnderscore(c) == c \in (65..90) \cup (97..122) \cup {95}
IsDecimalDigit(c) == c \in 48..57
IsIdentifierChar(c) == IsLetterOrUnderscore(c) \/ IsDecimalDigit(c)
\* space, tab, newline: the whitespace the specification names
IsAscii(c) == c \in 0..127
IsSpaceTabNewline(c) == c \in {32, 9, 10}
\* what std::isspace accepts: space, \t, \n, \v, \f, \r
IsSpace(c) == c \in {32} \cup (9..13)

SymbolType(c) ==
    CASE c = 123 -> "SymbolBraceLeft"
      [] c = 125 -> "SymbolBraceRight"
      [] c = 40 -> "SymbolParenLeft"
      [] c = 41 -> "SymbolParenRight"
      [] c = 59 -> "SymbolSemicolon"

IsSymbolChar(c) == c \in {123, 125, 40, 41, 59}

KeywordType(run) ==
    CASE run = <<105, 110, 116>> -> "KeywordInt"
      [] run = <<114, 101, 116, 117, 114, 110>> -> "KeywordReturn"
      [] run = <<118, 111, 105, 100>> -> "KeywordVoid"
      [] OTHER -> "LiteralIdentifier"

\* The 0-based position of the first character next_token classifies: the
\* cursor moved past the whitespace run it stands on.
TokenStart == lexer.m_current + RunLength(lexer.m_source, lexer.m_current, IsSpace)

HasTokenStart == TokenStart < Len(lexer.m_source)

TokenStartChar == lexer.m_source[TokenStart + 1]

---------------------------------------------------------------------------
(* C1: lexing `int main(void){return 2;}` to the end and parsing the       *)
(* tokens succeeds with Program{Function{name = "main", body =             *)
(* [ReturnStatement(IntegerLiteral(2))]}}.                                 *)
C1_MainSourceParses ==
    (lexer.m_source = MainSource /\ pc \in {"done", "terminate"})
        => /\ pc = "done"
           /\ ret = ReturnValue(Program(Function(MainLexeme,
                        <<ReturnStatement(IntegerLiteral(2))>>)))

(* C2: with one of { } ( ) ; current after the whitespace, next_token      *)
(* returns a token of the matching symbol type whose lexeme is that one    *)
(* character, and the cursor advances by exactly one.                      *)
C2_SymbolTokens ==
    [][(MainLex /\ HasTokenStart /\ IsSymbolChar(TokenStartChar))
        => /\ ret'.kind = "token"
           /\ ret'.token.type = SymbolType(TokenStartChar)
           /\ ret'.token.lexeme = <<TokenStartChar>>
           /\ lexer'.m_current = TokenStart + 1]_vars

(* C3: with a letter or underscore current, next_token consumes the        *)
(* maximal run of identifier characters, the lexeme is that whole run, and *)
(* the type is the keyword the run spells, LiteralIdentifier otherwise.    *)
C3_IdentifierTokens ==
    [][(MainLex /\ HasTokenStart /\ IsLetterOrUnderscore(TokenStartChar))
        => LET n == RunLength(lexer.m_source, TokenStart, IsIdentifierChar)
               run == SubSeq(lexer.m_source, TokenStart + 1, TokenStart + n)
           IN  /\ ret'.kind = "token"
               /\ lexer'.m_current = TokenStart + n
               /\ ret'.token.lexeme = run
               /\ ret'.token.type = KeywordType(run)]_vars

(* C4: with a digit current, next_token consumes the maximal run of        *)
(* digits and returns a LiteralInteger token whose lexeme is that whole    *)
(* run, the cursor left on the first non-digit or at the end.              *)
C4_IntegerTokens ==
    [][(MainLex /\ HasTokenStart /\ IsDecimalDigit(TokenStartChar))
        => LET n == RunLength(lexer.m_source, TokenStart, IsDecimalDigit)
               run == SubSeq(lexer.m_source, TokenStart + 1, TokenStart + n)
           IN  /\ ret'.kind = "token"
               /\ ret'.token.type = "LiteralInteger"
               /\ lexer'.m_current = TokenStart + n
               /\ n >= 1
               /\ ret'.token.lexeme = run]_vars

SameResult(a, b) ==
    /\ a.kind = b.kind
    /\ a.kind = "token" => /\ a.token.type = b.token.type
                           /\ a.token.lexeme = b.token.lexeme

C6_LineColumn ==
    LET newlines == { i \in 1..lexer.m_current : lexer.m_source[i] = 10 }
        last == IF newlines = {} THEN 0
                ELSE CHOOSE i \in newlines : \A j \in newlines : j <= i
    IN  /\ lexer.m_current <= Len(lexer.m_source)
        /\ lexer.m_line = 1 + Cardinality(newlines)
        /\ lexer.m_column = 1 + (lexer.m_current - last)

\* A newline inside a longer whitespace run has been consumed, and
\* characters after it.
C6_Witness ==
    /\ pc = "lexer"
    /\ lexer.m_line > 1
    /\ lexer.m_column > 1
    /\ \E i \in 2..lexer.m_current :
        /\ lexer.m_source[i] = 10
        /\ IsSpace(lexer.m_source[i - 1])

(* C9: lexing and parsing `int main(void){return 2;` fails in the parser   *)
(* with the error that names SymbolBraceRight, raised where the tokens run *)
(* out.                                                                    *)
C9_MissingBraceNamed ==
    (lexer.m_source = MissingBraceSource /\ pc \in {"done", "terminate"})
        => /\ pc = "terminate"
           /\ ret = Throw("std::runtime_error",
                          <<"expected token of type", "SymbolBraceRight">>)
           /\ parser.m_current = Len(parser.m_tokens)

---------------------------------------------------------------------------
(* Decimal numerals, stated on the digits without std::stoi. *)

\* 2147483647
IntMaxDigits == <<50, 49, 52, 55, 52, 56, 51, 54, 52, 55>>

IsZeroDigit(c) == c = 48

IsNumeral(s) == s # <<>> /\ \A i \in 1..Len(s) : IsDecimalDigit(s[i])

WithoutLeadingZeros(s) == SubSeq(s, RunLength(s, 0, IsZeroDigit) + 1, Len(s))

\* a <= b for numerals of one length
NumeralLeq(a, b) ==
    \/ a = b
    \/ \E i \in 1..Len(a) : a[i] < b[i] /\ \A j \in 1..(i - 1) : a[j] = b[j]

FitsInt(s) ==
    LET t == WithoutLeadingZeros(s) IN
    \/ Len(t) < Len(IntMaxDigits)
    \/ Len(t) = Len(IntMaxDigits) /\ NumeralLeq(t, IntMaxDigits)

RECURSIVE Pow10(_)
Pow10(n) == IF n = 0 THEN 1 ELSE 10 * Pow10(n - 1)

\* The value of a numeral that fits an int, most significant digit first.
RECURSIVE DecimalValue(_)
DecimalValue(s) ==
    IF s = <<>> THEN 0
    ELSE (Head(s) - 48) * Pow10(Len(s) - 1) + DecimalValue(Tail(s))

---------------------------------------------------------------------------
(* C7: consume_token(t) succeeds exactly when a current token exists and   *)
(* its type is t; on success the cursor advances by one and the token that *)
(* was current is returned; otherwise (tokens exhausted, or another type,  *)
(* SpecialError included) it throws the parse error naming t and leaves    *)
(* the cursor unchanged.                                                   *)
C7_ConsumeToken ==
    [][\A type \in TokenType :
        ParserCall(consume_token(parser, type))
        => LET exists == parser.m_current < Len(parser.m_tokens)
               matches == exists /\ parser.m_tokens[parser.m_current + 1].type = type
           IN  IF matches
               THEN /\ ret' = ReturnValue(parser.m_tokens[parser.m_current + 1])
                    /\ parser'.m_current = parser.m_current + 1
                    /\ parser'.m_tokens = parser.m_tokens
               ELSE /\ ret' = Throw("std::runtime_error",
                                    <<"expected token of type", type>>)
                    /\ parser' = parser]_vars

\* A grammar token was asked for with a SpecialError token current, after
\* an earlier call had advanced the cursor.
C7_Witness ==
    /\ pc = "parser"
    /\ ret = Throw("std::runtime_error", <<"expected token of type", "SymbolParenLeft">>)
    /\ parser.m_current >= 1
    /\ parser.m_current < Len(parser.m_tokens)
    /\ parser.m_tokens[parser.m_current + 1].type = "SpecialError"

\* The token types of  int identifier ( void ) { return integer ; }
FunctionTypes ==
    << "KeywordInt", "LiteralIdentifier", "SymbolParenLeft", "KeywordVoid",
       "SymbolParenRight", "SymbolBraceLeft", "KeywordReturn", "LiteralInteger",
       "SymbolSemicolon", "SymbolBraceRight" >>

\* The tokens from the cursor on start with a valid function.
IsFunctionAtCursor ==
    /\ parser.m_current + Len(FunctionTypes) <= Len(parser.m_tokens)
    /\ \A i \in 1..Len(FunctionTypes) :
        parser.m_tokens[parser.m_current + i].type = FunctionTypes[i]
    /\ IsNumeral(parser.m_tokens[parser.m_current + 8].lexeme)
    /\ FitsInt(parser.m_tokens[parser.m_current + 8].lexeme)

(* C8: parse_program parses exactly one function and then requires the     *)
(* tokens to be exhausted: on a valid function followed by further tokens  *)
(* of any type it throws "expected end of file" and returns no Program; it *)
(* returns a Program only with the cursor at the number of tokens, right   *)
(* after one function.                                                     *)
C8_ParseProgram ==
    [][ParserCall(parse_program(parser))
        => /\ ret'.kind = "value"
                => /\ IsFunctionAtCursor
                   /\ ret'.value.node = "Program"
                   /\ parser'.m_current = parser.m_current + Len(FunctionTypes)
                   /\ parser'.m_current = Len(parser.m_tokens)
           /\ (IsFunctionAtCursor
                 /\ parser.m_current + Len(FunctionTypes) < Len(parser.m_tokens))
                => ret' = Throw("std::runtime_error", <<"expected end of file">>)
           /\ (IsFunctionAtCursor
                 /\ parser.m_current + Len(FunctionTypes) = Len(parser.m_tokens))
                => ret'.kind = "value"]_vars

\* parse_program has rejected a whole function for the tokens after it.
C8_Witness ==
    /\ pc = "parser"
    /\ ret = Throw("std::runtime_error", <<"expected end of file">>)
    /\ parser.m_current = Len(FunctionTypes)
    /\ Len(parser.m_tokens) > Len(FunctionTypes)
    /\ \A i \in 1..Len(FunctionTypes) : parser.m_tokens[i].type = FunctionTypes[i]

(* C10: parse_integer_literal on a LiteralInteger token whose lexeme is a  *)
(* run of digits returns the IntegerLiteral of the numeral's value, a      *)
(* function of the lexeme alone, when the value fits a 32-bit signed int,  *)
(* and throws the numeric-range error std::out_of_range when it does not;  *)
(* no other value is ever returned.                                        *)
C10_ParseIntegerLiteral ==
    [][(/\ ParserCall(parse_integer_literal(parser))
        /\ parser.m_current < Len(parser.m_tokens)
        /\ parser.m_tokens[parser.m_current + 1].type = "LiteralInteger"
        /\ IsNumeral(parser.m_tokens[parser.m_current + 1].lexeme))
        => LET lexeme == parser.m_tokens[parser.m_current + 1].lexeme IN
           IF FitsInt(lexeme)
           THEN ret' = ReturnValue(IntegerLiteral(
                           DecimalValue(WithoutLeadingZeros(lexeme))))
           ELSE /\ ret'.kind = "throw"
                /\ ret'.exception = "std::out_of_range"]_vars

\* The literal 2147483648, one more than INT_MAX, has been rejected.
C10_Witness ==
    /\ pc = "parser"
    /\ parser.m_tokens = <<Tok("LiteralInteger", <<50, 49, 52, 55, 52, 56, 51, 54, 52, 56>>)>>
    /\ parser.m_current = 1
    /\ ret.kind = "throw"
    /\ ret.exception = "std::out_of_range"

---------------------------------------------------------------------------
(* Vocabulary of the Compiler's properties: what a text is, read back      *)
(* without the Compiler's operators.                                       *)

\* text is the decimal numeral of value: a '-' exactly when value is
\* negative, then the digits of its magnitude without a leading zero.
IsDecimalOf(text, value) ==
    /\ text # <<>>
    /\ (value < 0) = (text[1] = 45)
    /\ LET digits == IF value < 0 THEN Tail(text) ELSE text IN
       /\ IsNumeral(digits)
       /\ Len(digits) = 1 \/ ~IsZeroDigit(digits[1])
       /\ FitsInt(digits)
       /\ DecimalValue(digits) = (IF value < 0 THEN 0 - value ELSE value)

\* text is "\tmovl\t$<value>, %eax\n\tret\n": the move of the immediate
\* into the return register with the return right after it.
IsReturnText(text, value) ==
    LET before == MovlText \o DollarText
        after == EaxText \o RetText
        n == Len(text) - Len(before) - Len(after)
    IN  /\ n >= 1
        /\ SubSeq(text, 1, Len(before)) = before
        /\ SubSeq(text, Len(before) + n + 1, Len(text)) = after
        /\ IsDecimalOf(SubSeq(text, Len(before) + 1, Len(before) + n), value)

\* text is the texts of the body's returns of integer literals, in order,
\* with nothing before, between or after them.
RECURSIVE IsBodyText(_, _)
IsBodyText(text, body) ==
    IF body = <<>> THEN text = <<>>
    ELSE \E k \in 1..Len(text) :
            /\ IsReturnText(SubSeq(text, 1, k), Head(body).return_value.value)
            /\ IsBodyText(SubSeq(text, k + 1, Len(text)), Tail(body))

\* "\t.globl <name>\n<name>:\n"
HeaderText(name) == GloblText \o name \o NewlineText \o name \o LabelEndText

\* text is the directive and the label of the function, once, and then the
\* text of its body.
IsProgramText(text, program) ==
    LET header == HeaderText(program.function.name.name) IN
    /\ Len(text) >= Len(header)
    /\ SubSeq(text, 1, Len(header)) = header
    /\ IsBodyText(SubSeq(text, Len(header) + 1, Len(text)), program.function.body)

OnlyIntegerLiterals(program) ==
    \A i \in 1..Len(program.function.body) :
        program.function.body[i].return_value.node = "IntegerLiteral"

\* int main(void) { return 2; } as the parser hands it over
MainProgram ==
    Program(Function(Identifier(MainLexeme),
                     <<ReturnStatement(IntegerLiteral(2))>>))

\* "\t.globl main\nmain:\n\tmovl\t$2, %eax\n\tret\n"
MainAssembly ==
    <<9, 46, 103, 108, 111, 98, 108, 32, 109, 97, 105, 110, 10,
      109, 97, 105, 110, 58, 10,
      9, 109, 111, 118, 108, 9, 36, 50, 44, 32, 37, 101, 97, 120, 10,
      9, 114, 101, 116, 10>>

---------------------------------------------------------------------------
(* C11: compile_program on a fresh Compiler, given a program whose body is *)
(* return statements of integer literals, returns normally and leaves in   *)
(* the buffer exactly: the global directive and the label of the           *)
(* function's name, once each and before any body text, then for each      *)
(* statement in body order the move of its literal as an immediate into    *)
(* the return register immediately followed by the return instruction.     *)
(* For int main(void) { return 2; } that is the directive and label for    *)
(* main, the load of 2 and ret.                                            *)
C11_CompileProgram ==
    [][\A program \in Programs :
          ( /\ compiler = Compiler
            /\ OnlyIntegerLiterals(program)
            /\ CompilerCall(compile_program(compiler, program)) )
          => /\ ret' = Void
             /\ IsProgramText(get_code(compiler'), program)
             /\ program = MainProgram => get_code(compiler') = MainAssembly]_vars

C11_Witness ==
    /\ pc = "compiler"
    /\ calls = 1
    /\ ret = Void
    /\ \E program \in Programs :
          /\ OnlyIntegerLiterals(program)
          /\ Len(program.function.body) = 2
          /\ program.function.body[1] # program.function.body[2]
          /\ compiler = compile_program(Compiler, program).compiler

---------------------------------------------------------------------------
(* C12: when compile_program comes to a return statement whose expression  *)
(* is an Identifier, the call fails with an error and nothing written for  *)
(* the failed program is left behind: the buffer get_code reads is what it *)
(* was before the call, with no directive, label or half-written move.     *)
C12_NoPartialAssembly ==
    [][\A program \in Programs :
          ( /\ ~OnlyIntegerLiterals(program)
            /\ CompilerCall(compile_program(compiler, program)) )
          => /\ ret'.kind = "throw"
             /\ get_code(compiler') = get_code(compiler)]_vars

---------------------------------------------------------------------------
(* C13: a Compiler is Accumulating until get_code is called and Finalized  *)
(* from then on: once get_code has been called on it, no call of           *)
(* compile_program, compile_function or a visitor changes the buffer, so   *)
(* one Compiler never holds the text of two programs.                      *)
C13_FinalizedIsTerminal ==
    [][retrieved => get_code(compiler') = get_code(compiler)]_vars

---------------------------------------------------------------------------
(* Where the next lexeme starts, whatever std::isspace answers for a       *)
(* negative char.                                                          *)

IsSkipped(c) == IF c < 0 THEN isspace_negative ELSE IsSpace(c)

LexemeStart ==
    lexer.m_current + RunLength(lexer.m_source, lexer.m_current, IsSkipped)

HasLexemeStart == LexemeStart < Len(lexer.m_source)

LexemeStartChar == lexer.m_source[LexemeStart + 1]

IdentifierTypes ==
    { "LiteralIdentifier", "KeywordInt", "KeywordReturn", "KeywordVoid" }

---------------------------------------------------------------------------
(* C14: a caller that calls nothing but next_token never gets a LexError   *)
(* or any other exception, whatever the source: every call returns a token *)
(* or the end-of-stream null, the null exactly when nothing but skipped    *)
(* characters is left; an identifier or keyword token comes only from a    *)
(* lexeme that starts with a letter or underscore and an integer token     *)
(* only from one that starts with a digit.                                 *)
C14_NextTokenNeverThrows ==
    [][NextToken =>
         /\ ret'.kind \in {"token", "nullopt"}
         /\ (ret'.kind = "nullopt") = ~HasLexemeStart
         /\ ret'.kind = "token" =>
              /\ ret'.token.type \in IdentifierTypes
                    => IsLetterOrUnderscore(LexemeStartChar)
              /\ ret'.token.type = "LiteralInteger"
                    => IsDecimalDigit(LexemeStartChar)]_vars

\* An integer token was returned after an identifier and a byte above 127.
C14_Witness ==
    /\ pc = "lexer"
    /\ ret.kind = "token"
    /\ ret.token.type = "LiteralInteger"
    /\ \E i, j \in 1..lexer.m_current :
          /\ i < j
          /\ IsLetterOrUnderscore(lexer.m_source[i])
          /\ lexer.m_source[j] < 0

---------------------------------------------------------------------------
(* C15: a caller that keeps calling next_token gets the end-of-stream null *)
(* after finitely many calls: a call that returns a token moves the cursor *)
(* forward by at least one character, the cursor never passes the end of   *)
(* the source, and once the null has been returned every later call        *)
(* returns null and leaves cursor, line and column as they are.            *)
C15_ReachesEndOfStream ==
    /\ [][NextToken =>
            /\ ret'.kind = "token" => lexer'.m_current >= lexer.m_current + 1
            /\ lexer'.m_current <= Len(lexer'.m_source)
            /\ ret.kind = "nullopt" => /\ ret'.kind = "nullopt"
                                       /\ lexer' = lexer]_vars
    /\ <>(ret.kind = "nullopt")

\* The null was returned at the end of a source that gave tokens before.
C15_Witness ==
    /\ pc = "lexer"
    /\ ret.kind = "nullopt"
    /\ lexer.m_current = Len(lexer.m_source)
    /\ \E i \in 1..Len(lexer.m_source) : ~IsSkipped(lexer.m_source[i])

---------------------------------------------------------------------------
(* C16: every token next_token returns, of any kind, carries the 1-based   *)
(* line and column of the first character of its lexeme: the line is 1     *)
(* plus the newlines before that character and the column is its distance  *)
(* from the last of them (from the start of the source when there is       *)
(* none).                                                                  *)
C16_TokenPosition ==
    [][(NextToken /\ ret'.kind = "token") =>
         LET newlines == { i \in 1..LexemeStart : lexer.m_source[i] = 10 }
             last == IF newlines = {} THEN 0
                     ELSE CHOOSE i \in newlines : \A j \in newlines : j <= i
         IN  /\ ret'.token.line = 1 + Cardinality(newlines)
             /\ ret'.token.column = 1 + (LexemeStart - last)]_vars

====
